---- MODULE Spec2Model ----
(***************************************************************************)
(* Model of the carla-ackermann vehicle controller (VehicleController and  *)
(* the stages it owns: SteerController, SpeedController, AccelController,  *)
(* VehiclePhysics, the PID loops).                                         *)
(*                                                                         *)
(* Numbers.  The program computes in f64.  The model computes in fixed     *)
(* point: speeds (m/s), accelerations (m/s^2), angles (rad), forces (N)    *)
(* and pedal values are integers counting thousandths; a time is a number  *)
(* of milliseconds; the mass is a whole number of kg; the ratios of an     *)
(* Output (throttle, brake, steer) count hundred-thousandths, so that the  *)
(* smallest pedal difference still gives a non-zero ratio, as it does in   *)
(* f64.  Products and quotients round toward zero.                         *)
(***************************************************************************)
EXTENDS Integers, Sequences, FiniteSets, TLC

VARIABLES
    physics,            \* VehicleController.physics (immutable after build)
    measurement,        \* VehicleController.measurement
    speed_controller,   \* VehicleController.speed_controller
    accel_controller,   \* VehicleController.accel_controller
    steer_controller,   \* VehicleController.steer_controller
    last_request,       \* the TargetRequest of the latest set_target (<<>>: none yet)
    call,               \* the latest call and its arguments
    result              \* what the latest call returned

vars == <<physics, measurement, speed_controller, accel_controller,
          steer_controller, last_request, call, result>>

-----------------------------------------------------------------------------
(* Fixed-point arithmetic *)

Abs(x) == IF x < 0 THEN -x ELSE x

Min(a, b) == IF a <= b THEN a ELSE b

\* a / b rounded toward zero (b /= 0)
Quot(a, b) ==
    LET q == Abs(a) \div Abs(b)
    IN  IF (a < 0) = (b < 0) THEN q ELSE -q

\* product of two thousandths, in thousandths
MulQ(a, b) == Quot(a * b, 1000)

\* f64::clamp
Clamp(x, lo, hi) == IF x < lo THEN lo ELSE IF x > hi THEN hi ELSE x

\* the Output value 1.0 (brake: 1.0), in hundred-thousandths
One == 100000

\* num / den as a ratio in hundred-thousandths
Ratio(num, den) == Quot(num * One, den)

\* f64::sin on thousandths of a radian: x - x^3/6 + x^5/120
Sin(x) ==
    LET x2 == MulQ(x, x)
        x3 == MulQ(x2, x)
        x5 == MulQ(MulQ(x3, x), x)
    IN  x - Quot(x3, 6) + Quot(x5, 120)

\* f64::to_radians on whole degrees, in thousandths of a radian
ToRadians(deg) == Quot(deg * 31416, 1800)

-----------------------------------------------------------------------------
(* constants.rs *)

FULL_STOP_SPEED_MS == 10

STAND_STILL_SPEED_MS == 100

INTERNAL_ACCEL_MS2 == 10

DEFAULT_MAX_STEERING_DEGREES == 70

-----------------------------------------------------------------------------
(* physics.rs *)

ACCELERATION_OF_GRAVITY == 9810

rolling_resistance_coefficient == 10

engine_brake_force == 500000

max_accel == 3000

max_deceleration == 8000

\* 180.0 / 3.6
max_speed == Quot(180000 * 10, 36)

SetMax(S) == CHOOSE x \in S : \A y \in S : y <= x

\* VehiclePhysics::new(physics_control): mass in kg, wheels the set of the
\* wheels' max_steer_angle
VehiclePhysicsNew(mass, wheels) ==
    LET weight_force == mass * ACCELERATION_OF_GRAVITY
    IN  [ mass |-> mass,
          engine_brake_force |-> engine_brake_force,
          lay_off_engine_acceleration |-> -Quot(engine_brake_force, mass),
          weight_force |-> weight_force,
          rolling_resistance_force |-> MulQ(rolling_resistance_coefficient, weight_force),
          max_steering_angle |-> IF wheels = {}
                                 THEN ToRadians(DEFAULT_MAX_STEERING_DEGREES)
                                 ELSE SetMax(wheels),
          max_speed |-> max_speed,
          max_acceleration |-> max_accel,
          max_deceleration |-> max_deceleration ]

\* VehiclePhysics::driving_impedance_acceleration.  The slope force is
\* -g * mass * sin(pitch); the model multiplies by the mass last to stay
\* within the integers of the checker.
driving_impedance_acceleration(ph, speed, pitch_radians, reverse) ==
    LET speed_squared == MulQ(speed, speed)
        slope_force_value == -(MulQ(ACCELERATION_OF_GRAVITY, Sin(pitch_radians)) * ph.mass)
        slope_force == IF reverse THEN -slope_force_value ELSE slope_force_value
        drag_area == MulQ(300, 2370)
        rho_air_25 == 1184
        aerodynamic_drag_force ==
            MulQ(MulQ(MulQ(500, drag_area), rho_air_25), speed_squared)
    IN  Quot(-(ph.rolling_resistance_force + aerodynamic_drag_force + slope_force),
             ph.mass)

-----------------------------------------------------------------------------
(* pid.rs and the pid crate's Pid<f64> *)

\* PidInit::build: Pid::new(kp, ki, kd, MAX, MAX, MAX, output_limit, 0.0)
PidBuild(kp, ki, kd, output_limit) ==
    [ kp |-> kp, ki |-> ki, kd |-> kd, output_limit |-> output_limit,
      setpoint |-> 0, integral_term |-> 0, prev_measurement |-> <<>> ]

\* Pid::next_control_output(measurement): the p, i and d limits are f64::MAX
\* and never bind; the output is limited to +-output_limit.
\* Returns the updated Pid and the output.
PidNext(pid, m) ==
    LET error == pid.setpoint - m
        p == MulQ(error, pid.kp)
        integral == pid.integral_term + MulQ(error, pid.ki)
        d == -MulQ(IF pid.prev_measurement = <<>> THEN 0
                   ELSE m - pid.prev_measurement[1], pid.kd)
        output == Clamp(p + integral + d, -pid.output_limit, pid.output_limit)
    IN  [ pid |-> [pid EXCEPT !.integral_term = integral,
                              !.prev_measurement = <<m>>],
          output |-> output ]

-----------------------------------------------------------------------------
(* steer_control.rs *)

\* SteerController::new
SteerController_new(max_steering_angle) ==
    [ max_steering_angle |-> max_steering_angle, target_steering_angle |-> 0 ]

\* SteerController::set_target storing the requested angle as it comes
SteerController_set_target_unclamped(sc, target_steering_angle) ==
    [sc EXCEPT !.target_steering_angle = target_steering_angle]

\* SteerController::set_target
SteerController_set_target(sc, target_steering_angle) ==
    LET max == sc.max_steering_angle
    IN  [sc EXCEPT !.target_steering_angle = Clamp(target_steering_angle, -max, max)]

\* SteerController::steer_ratio
steer_ratio(sc) == Ratio(sc.target_steering_angle, sc.max_steering_angle)

-----------------------------------------------------------------------------
(* speed_control.rs *)

\* SpeedControllerInit::from_physics(physics, None).build()
SpeedController_build(ph) ==
    [ speed_pid |-> PidBuild(50, 0, 500, 1000),
      accel_activator |-> [ max |-> 5, cur |-> 0 ],
      target_speed |-> 0,
      target_accel |-> 0,
      max_speed |-> ph.max_speed,
      max_accel |-> ph.max_acceleration,
      min_accel |-> 1000,
      max_decel |-> ph.max_deceleration ]

\* SpeedController::set_target without the forced deceleration of a stopping
\* target
SpeedController_set_target_unforced(sc, speed, accel) ==
    [sc EXCEPT !.target_speed = Clamp(speed, -sc.max_speed, sc.max_speed),
               !.target_accel = Clamp(accel, -sc.max_decel, sc.max_accel)]

\* SpeedController::set_target testing the target speed stored before the call
\* (as Controller::set_target of control.rs reads the stored target)
SpeedController_set_target_stale(sc, speed, accel) ==
    LET target_speed == Clamp(speed, -sc.max_speed, sc.max_speed)
        target_accel == IF Abs(sc.target_speed) >= FULL_STOP_SPEED_MS
                        THEN Clamp(accel, -sc.max_decel, sc.max_accel)
                        ELSE -sc.max_decel
    IN  [sc EXCEPT !.target_speed = target_speed, !.target_accel = target_accel]

\* SpeedController::set_target
SpeedController_set_target(sc, speed, accel) ==
    LET target_speed == Clamp(speed, -sc.max_speed, sc.max_speed)
        target_accel == IF Abs(target_speed) >= FULL_STOP_SPEED_MS
                        THEN Clamp(accel, -sc.max_decel, sc.max_accel)
                        ELSE -sc.max_decel
    IN  [sc EXCEPT !.target_speed = target_speed, !.target_accel = target_accel]

\* is_standing comparing with the full-stop threshold
is_standing_full_stop(current_speed) == Abs(current_speed) < FULL_STOP_SPEED_MS

\* SpeedController::step: is_standing
is_standing(current_speed) == Abs(current_speed) < STAND_STILL_SPEED_MS

\* is_stopping testing the target speed for zero instead of the threshold
is_stopping_exact(target_speed) == target_speed = 0

\* SpeedController::step: is_stopping
is_stopping(target_speed) == Abs(target_speed) < FULL_STOP_SPEED_MS

\* is_full_stop looking at the target speed alone
is_full_stop_of_target(current_speed, target_speed) == is_stopping(target_speed)

\* is_full_stop looking at the current speed alone
is_full_stop_of_speed(current_speed, target_speed) == is_standing(current_speed)

\* SpeedController::step: is_full_stop
is_full_stop(current_speed, target_speed) ==
    is_standing(current_speed) /\ is_stopping(target_speed)

\* f64::is_sign_positive (the model has no negative zero)
is_sign_positive(x) == x >= 0

\* setpoint_speed without the comparison of the signs
setpoint_speed_unsigned(current_speed, target_speed) ==
    IF is_full_stop(current_speed, target_speed) THEN 0 ELSE target_speed

\* SpeedController::step: the match that selects setpoint_speed
setpoint_speed(current_speed, target_speed) ==
    IF is_standing(current_speed) /\ is_stopping(target_speed) THEN 0
    ELSE IF is_standing(current_speed) /\ ~is_stopping(target_speed) THEN target_speed
    ELSE IF is_sign_positive(current_speed) /= is_sign_positive(target_speed) THEN 0
    ELSE target_speed

\* SpeedController::step: is_inertial
is_inertial(target_accel) == Abs(target_accel) < INTERNAL_ACCEL_MS2

\* SpeedController::step keeping its acceleration setpoint in the stored
\* target acceleration
SpeedController_step_carrying(sc, current_speed) ==
    LET full_stop == is_full_stop(current_speed, sc.target_speed)
        target_accel_abs == Abs(sc.target_accel)
        pid0 == [sc.speed_pid EXCEPT
                    !.setpoint = Abs(setpoint_speed(current_speed, sc.target_speed))]
        r == PidNext(pid0, current_speed)
        delta == r.output
        lower == IF is_inertial(sc.target_accel) THEN -sc.max_decel ELSE -target_accel_abs
        upper == IF is_inertial(sc.target_accel) THEN sc.max_accel ELSE target_accel_abs
        prev_target == IF full_stop THEN 0 ELSE sc.target_accel
        setpoint_accel == Clamp(prev_target + delta, lower, upper)
    IN  [ sc |-> [sc EXCEPT !.speed_pid = r.pid, !.target_accel = setpoint_accel],
          setpoint_accel |-> setpoint_accel,
          delta_accel |-> delta,
          full_stop |-> full_stop ]

\* SpeedController::step (is_speed_control_enabled is the constant true and
\* the accel_activator is never touched).
\* Returns the updated controller and the SpeedControl.
SpeedController_step(sc, current_speed) ==
    LET full_stop == is_full_stop(current_speed, sc.target_speed)
        target_accel_abs == Abs(sc.target_accel)
        pid0 == [sc.speed_pid EXCEPT
                    !.setpoint = Abs(setpoint_speed(current_speed, sc.target_speed))]
        r == PidNext(pid0, current_speed)
        delta == r.output
        lower == IF is_inertial(sc.target_accel) THEN -sc.max_decel ELSE -target_accel_abs
        upper == IF is_inertial(sc.target_accel) THEN sc.max_accel ELSE target_accel_abs
        prev_target == IF full_stop THEN 0 ELSE sc.target_accel
    IN  [ sc |-> [sc EXCEPT !.speed_pid = r.pid],
          setpoint_accel |-> Clamp(prev_target + delta, lower, upper),
          delta_accel |-> delta,
          full_stop |-> full_stop ]

-----------------------------------------------------------------------------
(* accel_control.rs *)

\* AccelControllerInit::from_physics(physics).build()
AccelController_build(ph) ==
    [ accel_pid |-> PidBuild(50, 0, 50, 1000),
      target_accel |-> 0,
      target_pedal |-> 0,
      max_pedal |-> Min(ph.max_acceleration, ph.max_deceleration) ]

\* AccelController::set_target_accel
set_target_accel(ac, target_accel) == [ac EXCEPT !.target_accel = target_accel]

\* AccelController::reset_target_pedal
reset_target_pedal(ac) == [ac EXCEPT !.target_pedal = 0]

\* AccelController::step without the clamp of the pedal target
AccelController_step_unclamped(ac, current_accel) ==
    LET pid0 == [ac.accel_pid EXCEPT !.setpoint = ac.target_accel]
        r == PidNext(pid0, current_accel)
        pedal_delta == r.output
        curr_pedal_target == ac.target_pedal + pedal_delta
    IN  [ ac |-> [ac EXCEPT !.accel_pid = r.pid, !.target_pedal = curr_pedal_target],
          target_pedal |-> curr_pedal_target,
          pedal_delta |-> pedal_delta ]

\* AccelController::step.  Returns the updated controller and the AccelControl.
AccelController_step(ac, current_accel) ==
    LET pid0 == [ac.accel_pid EXCEPT !.setpoint = ac.target_accel]
        r == PidNext(pid0, current_accel)
        pedal_delta == r.output
        curr_pedal_target == Clamp(ac.target_pedal + pedal_delta, -ac.max_pedal, ac.max_pedal)
    IN  [ ac |-> [ac EXCEPT !.accel_pid = r.pid, !.target_pedal = curr_pedal_target],
          target_pedal |-> curr_pedal_target,
          pedal_delta |-> pedal_delta ]

-----------------------------------------------------------------------------
(* vehicle_control.rs *)

\* Measurement::default
Measurement_default == [ time_sec |-> 0, speed |-> 0, accel |-> 0 ]

\* Measurement::update (time_delta_sec in milliseconds)
Measurement_update(m, time_delta_sec, current_speed) ==
    LET speed_delta == current_speed - m.speed
        current_accel == Quot(speed_delta * 1000, time_delta_sec)
        time_sec == m.time_sec + time_delta_sec
    IN  IF current_speed < FULL_STOP_SPEED_MS
        THEN [ time_sec |-> time_sec, speed |-> 0, accel |-> 0 ]
        ELSE [ time_sec |-> time_sec, speed |-> current_speed, accel |-> current_accel ]

\* VehicleControllerInit::build: the controller as a record of its fields
VehicleController_build(ph) ==
    [ measurement |-> Measurement_default,
      physics |-> ph,
      speed_controller |-> SpeedController_build(ph),
      accel_controller |-> AccelController_build(ph),
      steer_controller |-> SteerController_new(ph.max_steering_angle) ]

\* VehicleController::set_target
VehicleController_set_target(vc, target) ==
    [vc EXCEPT
        !.steer_controller = SteerController_set_target(@, target.steering_angle),
        !.speed_controller = SpeedController_set_target(@, target.speed, target.accel)]

\* The assertion guarding only the division: assert!(time_delta_sec != 0.0)
assert_time_delta_nonzero(time_delta_sec) == time_delta_sec /= 0

\* VehicleController::step: assert!(time_delta_sec > 0.0)
assert_time_delta(time_delta_sec) == time_delta_sec > 0

\* reverse computed with <= instead of <
reverse_of_nonpositive(sc) == sc.target_speed <= 0

\* VehicleController::step: let reverse = speed_controller.target_speed() < 0.0
reverse_of(sc) == sc.target_speed < 0

\* The if-chain with the Coasting branch keeping the throttle of the branch
\* above it
classify_coasting_throttle(full_stop, target_pedal, tlb, bub, max_pedal, steer, reverse) ==
    LET throttle_lower_border == tlb
        brake_upper_border == bub
    IN
    IF full_stop THEN
        [ status |-> "FullStop",
          output |-> [ hand_brake |-> TRUE, steer |-> steer, reverse |-> reverse,
                       brake |-> One, throttle |-> 0 ] ]
    ELSE IF target_pedal > throttle_lower_border THEN
        [ status |-> "Accelerating",
          output |-> [ hand_brake |-> FALSE, steer |-> steer, reverse |-> reverse,
                       brake |-> 0,
                       throttle |-> Ratio(target_pedal - throttle_lower_border, max_pedal) ] ]
    ELSE IF target_pedal > brake_upper_border THEN
        [ status |-> "Coasting",
          output |-> [ hand_brake |-> FALSE, steer |-> steer, reverse |-> reverse,
                       brake |-> 0,
                       throttle |-> Ratio(target_pedal - throttle_lower_border, max_pedal) ] ]
    ELSE
        [ status |-> "Braking",
          output |-> [ hand_brake |-> FALSE, steer |-> steer, reverse |-> reverse,
                       brake |-> Ratio(brake_upper_border - target_pedal, max_pedal),
                       throttle |-> 0 ] ]

\* The if-chain with the Coasting test written >= instead of >
classify_coasting_inclusive(full_stop, target_pedal, tlb, bub, max_pedal, steer, reverse) ==
    LET throttle_lower_border == tlb
        brake_upper_border == bub
    IN
    IF full_stop THEN
        [ status |-> "FullStop",
          output |-> [ hand_brake |-> TRUE, steer |-> steer, reverse |-> reverse,
                       brake |-> One, throttle |-> 0 ] ]
    ELSE IF target_pedal > throttle_lower_border THEN
        [ status |-> "Accelerating",
          output |-> [ hand_brake |-> FALSE, steer |-> steer, reverse |-> reverse,
                       brake |-> 0,
                       throttle |-> Ratio(target_pedal - throttle_lower_border, max_pedal) ] ]
    ELSE IF target_pedal >= brake_upper_border THEN
        [ status |-> "Coasting",
          output |-> [ hand_brake |-> FALSE, steer |-> steer, reverse |-> reverse,
                       brake |-> 0, throttle |-> 0 ] ]
    ELSE
        [ status |-> "Braking",
          output |-> [ hand_brake |-> FALSE, steer |-> steer, reverse |-> reverse,
                       brake |-> Ratio(brake_upper_border - target_pedal, max_pedal),
                       throttle |-> 0 ] ]

\* VehicleController::step: the if-chain that produces (status_kind, output)
classify(full_stop, target_pedal, tlb, bub, max_pedal, steer, reverse) ==
    LET throttle_lower_border == tlb
        brake_upper_border == bub
    IN
    IF full_stop THEN
        [ status |-> "FullStop",
          output |-> [ hand_brake |-> TRUE, steer |-> steer, reverse |-> reverse,
                       brake |-> One, throttle |-> 0 ] ]
    ELSE IF target_pedal > throttle_lower_border THEN
        [ status |-> "Accelerating",
          output |-> [ hand_brake |-> FALSE, steer |-> steer, reverse |-> reverse,
                       brake |-> 0,
                       throttle |-> Ratio(target_pedal - throttle_lower_border, max_pedal) ] ]
    ELSE IF target_pedal > brake_upper_border THEN
        [ status |-> "Coasting",
          output |-> [ hand_brake |-> FALSE, steer |-> steer, reverse |-> reverse,
                       brake |-> 0, throttle |-> 0 ] ]
    ELSE
        [ status |-> "Braking",
          output |-> [ hand_brake |-> FALSE, steer |-> steer, reverse |-> reverse,
                       brake |-> Ratio(brake_upper_border - target_pedal, max_pedal),
                       throttle |-> 0 ] ]

\* What a call returns when it returns nothing, or before any call
NoOutput == [ hand_brake |-> FALSE, steer |-> 0, reverse |-> FALSE, brake |-> 0, throttle |-> 0 ]

NoReport == [ status |-> "None", setpoint_accel |-> 0, target_pedal |-> 0,
              delta_accel |-> 0, pedal_delta |-> 0 ]

\* VehicleController::step.  Returns the controller after the call and what
\* the call returned: kind "ok" with (Output, Report), or kind "panic" when the
\* assertion fails.
VehicleController_step(vc, time_delta_sec, current_speed, pitch_radians) ==
    IF ~assert_time_delta(time_delta_sec)
    THEN [ vc |-> vc, kind |-> "panic", output |-> NoOutput, report |-> NoReport ]
    ELSE
    LET m == Measurement_update(vc.measurement, time_delta_sec, current_speed)
        steer == steer_ratio(vc.steer_controller)
        sp == SpeedController_step(vc.speed_controller, current_speed)
        ac0 == set_target_accel(vc.accel_controller, sp.setpoint_accel)
        ac1 == IF sp.full_stop THEN reset_target_pedal(ac0) ELSE ac0
        ap == AccelController_step(ac1, m.accel)
        reverse == reverse_of(sp.sc)
        throttle_lower_border ==
            driving_impedance_acceleration(vc.physics, m.speed, pitch_radians, reverse)
        brake_upper_border == throttle_lower_border + vc.physics.lay_off_engine_acceleration
        c == classify(sp.full_stop, ap.target_pedal, throttle_lower_border,
                      brake_upper_border, ap.ac.max_pedal, steer, reverse)
    IN  [ vc |-> [vc EXCEPT !.measurement = m,
                            !.speed_controller = sp.sc,
                            !.accel_controller = ap.ac],
          kind |-> "ok",
          output |-> c.output,
          report |-> [ status |-> c.status,
                       setpoint_accel |-> sp.setpoint_accel,
                       target_pedal |-> ap.target_pedal,
                       delta_accel |-> sp.delta_accel,
                       pedal_delta |-> ap.pedal_delta ] ]

-----------------------------------------------------------------------------
(* The environment: vehicles, requests and ticks *)

\* Simulated time (ms) up to which ticks are taken
MaxTime == 150

\* VehiclePhysicsControl: mass (kg) and the wheels' max_steer_angle
Vehicles == { [ mass |-> 1000, wheels |-> {} ],
              [ mass |-> 1500, wheels |-> {0, 600} ] }

\* TargetRequest values passed to set_target
Requests == { [ steering_angle |-> 0,     speed |-> 5000,   accel |-> 1000 ],
              [ steering_angle |-> 400,   speed |-> 0,      accel |-> 0 ],
              [ steering_angle |-> -2000, speed |-> -3000,  accel |-> 0 ],
              [ steering_angle |-> 2000,  speed |-> 60000,  accel |-> 5000 ],
              [ steering_angle |-> -400,  speed |-> -60000, accel |-> -9000 ],
              [ steering_angle |-> 100,   speed |-> 5,      accel |-> 2000 ] }


\* current_speed values passed to step
Speeds == { -2000, 0, 50, 2000 }

\* pitch_radians values passed to step: a slope of -0.3 rad, whose slope force
\* opposes forward motion, level ground, and the slight slope on which the
\* brake border of the 1500 kg vehicle at 2 m/s is exactly -1.0, the pedal
\* target after one saturated pedal delta
Pitches == { -300, -58, 0 }

\* The (time_delta_sec, current_speed, pitch_radians) passed to step: regular
\* ticks with every speed and pitch, and calls with an interval that is zero
\* or negative
Ticks == ({50} \X Speeds \X Pitches)
            \cup { <<0, 0, 0>>, <<0, 2000, -300>>, <<-50, 2000, 0>> }

\* The latest call: its name, the arguments of a step, and for a set_target
\* whether its request repeats the request of the set_target before it
NoCall == [ op |-> "none", time_delta_sec |-> 0, current_speed |-> 0, pitch_radians |-> 0,
            repeated |-> FALSE ]

TheController ==
    [ measurement |-> measurement, physics |-> physics,
      speed_controller |-> speed_controller, accel_controller |-> accel_controller,
      steer_controller |-> steer_controller ]

Becomes(vc) ==
    /\ measurement' = vc.measurement
    /\ physics' = vc.physics
    /\ speed_controller' = vc.speed_controller
    /\ accel_controller' = vc.accel_controller
    /\ steer_controller' = vc.steer_controller

\* The run goes on while a regular tick (50 ms) still fits before MaxTime
Running == measurement.time_sec + 50 <= MaxTime

Init ==
    \E v \in Vehicles :
        LET vc == VehicleController_build(VehiclePhysicsNew(v.mass, v.wheels))
        IN  /\ measurement = vc.measurement
            /\ physics = vc.physics
            /\ speed_controller = vc.speed_controller
            /\ accel_controller = vc.accel_controller
            /\ steer_controller = vc.steer_controller
            /\ last_request = <<>>
            /\ call = NoCall
            /\ result = [ kind |-> "none", output |-> NoOutput, report |-> NoReport ]

\* controller.set_target(request)
SetTarget ==
    \E request \in Requests :
        /\ Running
        /\ \E vc \in { VehicleController_set_target(TheController, request) } :
               Becomes(vc)
        /\ last_request' = <<request>>
        /\ call' = [NoCall EXCEPT !.op = "set_target",
                                  !.repeated = (last_request = <<request>>)]
        /\ result' = [ kind |-> "unit", output |-> NoOutput, report |-> NoReport ]

\* controller.step(time_delta_sec, current_speed, pitch_radians)
Step ==
    \E tick \in Ticks :
      LET dt == tick[1]
          cs == tick[2]
          pitch == tick[3]
      IN
        /\ Running
        /\ measurement.time_sec + dt <= MaxTime
        /\ \E r \in { VehicleController_step(TheController, dt, cs, pitch) } :
               /\ Becomes(r.vc)
               /\ result' = [ kind |-> r.kind, output |-> r.output, report |-> r.report ]
        /\ call' = [ op |-> "step", time_delta_sec |-> dt, current_speed |-> cs,
                     pitch_radians |-> pitch, repeated |-> FALSE ]
        /\ UNCHANGED last_request

Next == SetTarget \/ Step

Spec == Init /\ [][Next]_vars

-----------------------------------------------------------------------------
(* The stop sequence: a newly built controller is given a target speed of 0
   and then ticked every 50 ms on a road of constant pitch, with a current
   speed that starts at 10 m/s and decays until it is below the stand-still
   threshold, where it stays. *)

StopMaxTime == 300

\* The request with target speed 0
StopRequest == [ steering_angle |-> 400, speed |-> 0, accel |-> 0 ]

\* The current speeds of a stop sequence
StopSpeeds == { 10000, 6000, 2000, 50, 5, 0 }

\* The road is level or has the slope of -0.3 rad
StopPitches == { -300, 0 }

StopInit ==
    \E v \in Vehicles :
        LET vc == VehicleController_set_target(
                      VehicleController_build(VehiclePhysicsNew(v.mass, v.wheels)),
                      StopRequest)
        IN  /\ measurement = vc.measurement
            /\ physics = vc.physics
            /\ speed_controller = vc.speed_controller
            /\ accel_controller = vc.accel_controller
            /\ steer_controller = vc.steer_controller
            /\ last_request = <<StopRequest>>
            /\ call = [NoCall EXCEPT !.op = "set_target"]
            /\ result = [ kind |-> "unit", output |-> NoOutput, report |-> NoReport ]

\* controller.step(0.05, current_speed, pitch_radians) with the next current
\* speed of the sequence
StopTick ==
    \E cs \in StopSpeeds, pitch \in StopPitches :
        /\ measurement.time_sec + 50 <= StopMaxTime
        /\ IF call.op = "set_target"
              THEN cs = 10000
              ELSE /\ pitch = call.pitch_radians
                   /\ IF call.current_speed < STAND_STILL_SPEED_MS
                         THEN cs < STAND_STILL_SPEED_MS
                         ELSE cs < call.current_speed
        /\ \E r \in { VehicleController_step(TheController, 50, cs, pitch) } :
               /\ Becomes(r.vc)
               /\ result' = [ kind |-> r.kind, output |-> r.output, report |-> r.report ]
        /\ call' = [ op |-> "step", time_delta_sec |-> 50, current_speed |-> cs,
                     pitch_radians |-> pitch, repeated |-> FALSE ]
        /\ UNCHANGED last_request

StopNext == StopTick

\* What a tick of the stop sequence does to the measurement: Measurement::update
\* with an interval of 50 ms
StopClock ==
    /\ measurement.time_sec + 50 <= StopMaxTime
    /\ \E cs \in StopSpeeds : measurement' = Measurement_update(measurement, 50, cs)

\* The ticks keep coming until the sequence is over
StopSpec == StopInit /\ [][StopNext]_vars /\ WF_measurement(StopClock)

-----------------------------------------------------------------------------
(* Longer runs on level ground: a newly built controller is given one target
   and then ticked every 50 ms with current speeds that may rise or fall by
   several m/s per tick, so that the pedal deltas saturate tick after tick. *)

PedalMaxTime == 250

\* The request of the usage example and the request with target speed 0
PedalRequests == { [ steering_angle |-> 0, speed |-> 5000, accel |-> 1000 ], StopRequest }

\* The current speeds of these runs
PedalSpeeds == { 0, 4000, 8000, 12000, 16000 }

PedalInit ==
    \E v \in Vehicles, request \in PedalRequests :
        LET vc == VehicleController_set_target(
                      VehicleController_build(VehiclePhysicsNew(v.mass, v.wheels)),
                      request)
        IN  /\ measurement = vc.measurement
            /\ physics = vc.physics
            /\ speed_controller = vc.speed_controller
            /\ accel_controller = vc.accel_controller
            /\ steer_controller = vc.steer_controller
            /\ last_request = <<request>>
            /\ call = [NoCall EXCEPT !.op = "set_target"]
            /\ result = [ kind |-> "unit", output |-> NoOutput, report |-> NoReport ]

\* controller.step(0.05, current_speed, 0.0)
PedalTick ==
    \E cs \in PedalSpeeds :
        /\ measurement.time_sec + 50 <= PedalMaxTime
        /\ \E r \in { VehicleController_step(TheController, 50, cs, 0) } :
               /\ Becomes(r.vc)
               /\ result' = [ kind |-> r.kind, output |-> r.output, report |-> r.report ]
        /\ call' = [ op |-> "step", time_delta_sec |-> 50, current_speed |-> cs,
                     pitch_radians |-> 0, repeated |-> FALSE ]
        /\ UNCHANGED last_request

PedalNext == PedalTick

PedalSpec == PedalInit /\ [][PedalNext]_vars

-----------------------------------------------------------------------------
(* Properties *)

\* The latest call was a step that returned (Output, Report)
Returned == result.kind = "ok"

\* The borders of the latest step, from the values it used
ThrottleLowerBorder ==
    driving_impedance_acceleration(physics, measurement.speed, call.pitch_radians,
                                   speed_controller.target_speed < 0)

BrakeUpperBorder == ThrottleLowerBorder + physics.lay_off_engine_acceleration

\* The stored target: steering angle, speed, acceleration
StoredTarget ==
    <<steer_controller.target_steering_angle, speed_controller.target_speed,
      speed_controller.target_accel>>

\* C1: every Output returned by step has throttle in [0,1] and brake in [0,1].
C1_ThrottleBrakeInUnitRange ==
    Returned =>
        /\ 0 <= result.output.throttle /\ result.output.throttle <= One
        /\ 0 <= result.output.brake /\ result.output.brake <= One

\* C2: a step with time_delta_sec <= 0 fails, and the Measurement, the stored
\* targets, both PID memories and the carried pedal target (all the fields of
\* the controller) are as before the call.
C2_InvalidIntervalFailsUnchanged ==
    [][ (call'.op = "step" /\ call'.time_delta_sec <= 0) =>
            /\ result'.kind = "panic"
            /\ UNCHANGED <<physics, measurement, speed_controller, accel_controller,
                           steer_controller>> ]_vars

\* C2 witness: a step with a negative interval has failed on a controller that
\* has ticked and carries a pedal target
C2_Witness ==
    /\ result.kind = "panic"
    /\ call.time_delta_sec < 0
    /\ measurement.time_sec > 0
    /\ accel_controller.target_pedal /= 0

\* C3 as stated: a tick whose current speed is below the full-stop threshold
\* reports FullStop with hand brake, full brake and no throttle, whatever the
\* target.
C3_FullStopWhateverTarget ==
    (Returned /\ Abs(call.current_speed) < FULL_STOP_SPEED_MS) =>
        /\ result.report.status = "FullStop"
        /\ result.output.hand_brake
        /\ result.output.brake = One
        /\ result.output.throttle = 0

\* C3 amended: a tick whose current speed is below the full-stop threshold in
\* magnitude, taken while the stored target speed is below the full-stop
\* threshold in magnitude, reports FullStop with hand brake, full brake and no
\* throttle.
C3_FullStopWhenTargetStops ==
    (/\ Returned
     /\ Abs(call.current_speed) < FULL_STOP_SPEED_MS
     /\ Abs(speed_controller.target_speed) < FULL_STOP_SPEED_MS) =>
        /\ result.report.status = "FullStop"
        /\ result.output.hand_brake
        /\ result.output.brake = One
        /\ result.output.throttle = 0

\* C3 witness: the second tick at rest in a row with a stopping target (the
\* Measurement's speed was already forced to zero and the speed PID had already
\* seen a speed below the threshold)
C3_Witness ==
    /\ Returned
    /\ call.current_speed = 0
    /\ speed_controller.target_speed = 5
    /\ measurement.time_sec >= 100
    /\ result.report.status = "FullStop"

\* C4 as stated: exactly one of throttle and brake is non-zero when the Status
\* is FullStop, Accelerating or Braking, and both are zero when and only when
\* the Status is Coasting.
C4_ExactlyOneUnlessCoasting ==
    Returned =>
        LET t == result.output.throttle /= 0
            b == result.output.brake /= 0
        IN  /\ result.report.status \in {"FullStop", "Accelerating", "Braking"} => (t /= b)
            /\ (~t /\ ~b) <=> result.report.status = "Coasting"

\* C4 amended: throttle and brake are never both non-zero; exactly one is
\* non-zero when the Status is FullStop or Accelerating; when it is Braking the
\* throttle is zero and the brake is zero only if the pedal target equals the
\* brake border; both are zero when it is Coasting.
C4_NeverBothPedals ==
    Returned =>
        LET t == result.output.throttle
            b == result.output.brake
            status == result.report.status
        IN  /\ ~(t /= 0 /\ b /= 0)
            /\ status \in {"FullStop", "Accelerating"} => ((t /= 0) /= (b /= 0))
            /\ status = "Braking" =>
                   /\ t = 0
                   /\ b >= 0
                   /\ (b = 0) <=> (result.report.target_pedal = BrakeUpperBorder)
            /\ status = "Coasting" => (t = 0 /\ b = 0)

\* C4 witness: a Braking tick whose pedal target sits on the brake border, so
\* that the brake is zero
C4_Witness ==
    /\ Returned
    /\ result.report.status = "Braking"
    /\ result.report.target_pedal = BrakeUpperBorder
    /\ result.output.brake = 0

\* C5: isFullStop gives FullStop with the hand brake on whatever the pedal
\* target; otherwise targetPedal > throttleLowerBorder gives Accelerating,
\* brakeUpperBorder < targetPedal <= throttleLowerBorder gives Coasting and
\* targetPedal <= brakeUpperBorder gives Braking, the hand brake off in all
\* three; the brake border lies below the throttle border, so that a rising
\* pedal target passes Braking, Coasting, Accelerating in this order.
C5_RegimePriorityChain ==
    Returned =>
        LET full_stop == is_full_stop(call.current_speed, speed_controller.target_speed)
            pedal == result.report.target_pedal
            status == result.report.status
        IN  /\ BrakeUpperBorder < ThrottleLowerBorder
            /\ full_stop => (status = "FullStop" /\ result.output.hand_brake)
            /\ ~full_stop =>
                   /\ ~result.output.hand_brake
                   /\ pedal > ThrottleLowerBorder => status = "Accelerating"
                   /\ (BrakeUpperBorder < pedal /\ pedal <= ThrottleLowerBorder)
                          => status = "Coasting"
                   /\ pedal <= BrakeUpperBorder => status = "Braking"

\* C5 witness: a Coasting tick (the pedal target in the band between the
\* borders) on a controller that is not at a full stop
C5_Witness ==
    /\ Returned
    /\ result.report.status = "Coasting"
    /\ BrakeUpperBorder < result.report.target_pedal
    /\ result.report.target_pedal < ThrottleLowerBorder

\* C6: in every Output, reverse is true exactly when the stored target speed is
\* negative.
C6_ReverseIffTargetNegative ==
    Returned => (result.output.reverse <=> speed_controller.target_speed < 0)

\* C6 witness: reverse is reported on a tick whose measured speed is forward
C6_Witness ==
    /\ Returned
    /\ result.output.reverse
    /\ call.current_speed > 0
    /\ measurement.speed > 0

\* C7: the stored target steering angle lies in [-maxSteeringAngle,
\* maxSteeringAngle] and the steer of every Output lies in [-1, 1].
C7_SteeringClamped ==
    /\ Abs(steer_controller.target_steering_angle) <= steer_controller.max_steering_angle
    /\ Returned => Abs(result.output.steer) <= One

\* C7 witness: a step has returned after a request beyond the steering limit
C7_Witness ==
    /\ Returned
    /\ last_request /= <<>>
    /\ Abs(last_request[1].steering_angle) > steer_controller.max_steering_angle
    /\ Abs(result.output.steer) = One

\* C8: the steer of an Output has the opposite sign to the requested steering
\* angle: non-positive for a positive request, non-negative for a negative one.
C8_SteerSignInverted ==
    (Returned /\ last_request /= <<>>) =>
        /\ last_request[1].steering_angle > 0 => result.output.steer <= 0
        /\ last_request[1].steering_angle < 0 => result.output.steer >= 0

\* C9: after a set_target the stored target speed lies in [-maxSpeed, maxSpeed]
\* and the stored target acceleration in [-maxDecel, maxAccel]; when the stored
\* target speed is below the full-stop threshold in magnitude, the stored
\* target acceleration is -maxDecel.
C9_SpeedTargetClamped ==
    last_request /= <<>> =>
        /\ -max_speed <= speed_controller.target_speed
        /\ speed_controller.target_speed <= max_speed
        /\ -max_deceleration <= speed_controller.target_accel
        /\ speed_controller.target_accel <= max_accel
        /\ Abs(speed_controller.target_speed) < FULL_STOP_SPEED_MS
               => speed_controller.target_accel = -max_deceleration

\* C9 witness: a request for a speed below the threshold with a positive
\* acceleration is stored with the full deceleration
C9_Witness ==
    /\ call.op = "set_target"
    /\ last_request[1].accel > 0
    /\ Abs(speed_controller.target_speed) < FULL_STOP_SPEED_MS
    /\ speed_controller.target_accel = -max_deceleration

\* C10: a set_target that repeats the request of the set_target just before it
\* leaves the stored target as it was, and the target any set_target stores is
\* the one a newly built controller stores for the same request.
C10_SetTargetIdempotent ==
    [][ call'.op = "set_target" =>
            /\ (call.op = "set_target" /\ last_request' = last_request)
                   => StoredTarget' = StoredTarget
            /\ LET fresh == VehicleController_set_target(
                                VehicleController_build(physics), last_request'[1])
               IN  StoredTarget' = <<fresh.steer_controller.target_steering_angle,
                                     fresh.speed_controller.target_speed,
                                     fresh.speed_controller.target_accel>> ]_vars

\* C10 witness: a set_target has repeated the request before it on a controller
\* that has ticked
C10_Witness ==
    /\ call.op = "set_target"
    /\ call.repeated
    /\ measurement.time_sec > 0

\* C11: a step call, returning or failing, leaves the stored target steering
\* angle, target speed and target acceleration as they were before the call;
\* only set_target changes them.
C11_StepKeepsStoredTarget ==
    [][ call'.op = "step" => StoredTarget' = StoredTarget ]_vars

\* C11 witness: after a set_target and an earlier tick, a step has returned an
\* acceleration setpoint that differs from the stored target acceleration,
\* which is still the one that set_target stored
C11_Witness ==
    /\ call.op = "step"
    /\ Returned
    /\ measurement.time_sec >= 100
    /\ last_request /= <<>>
    /\ result.report.setpoint_accel /= speed_controller.target_accel
    /\ speed_controller.target_accel =
           Clamp(last_request[1].accel, -max_deceleration, max_accel)

\* C12: on a returned tick whose current speed is not below the stand-still
\* threshold, the setpoint given to the speed PID is 0 when the current speed
\* and the stored target speed have opposite signs, and is the magnitude of
\* the stored target speed when their signs agree.
C12_OppositeSignSetpoint ==
    (Returned /\ ~is_standing(call.current_speed)) =>
        LET current_speed == call.current_speed
            target_speed == speed_controller.target_speed
        IN  /\ (current_speed > 0 /\ target_speed < 0)
                   => speed_controller.speed_pid.setpoint = 0
            /\ (current_speed < 0 /\ target_speed > 0)
                   => speed_controller.speed_pid.setpoint = 0
            /\ (current_speed > 0 /\ target_speed >= 0)
                   => speed_controller.speed_pid.setpoint = target_speed
            /\ (current_speed < 0 /\ target_speed <= 0)
                   => speed_controller.speed_pid.setpoint = -target_speed

\* C12 witness: two successive ticks at +2 m/s under a target of -3 m/s, the
\* second with the setpoint 0
C12_Witness ==
    /\ Returned
    /\ measurement.time_sec >= 100
    /\ call.current_speed = 2000
    /\ speed_controller.speed_pid.prev_measurement = <<2000>>
    /\ measurement.accel = 0
    /\ speed_controller.target_speed = -3000
    /\ speed_controller.speed_pid.setpoint = 0

\* The latest tick of a stop sequence reported the given Status
StopStatus(status) == call.op = "step" /\ result.report.status = status

C14_SetpointCarried ==
    [][ (call'.op = "step" /\ result'.kind = "ok") =>
            LET target_accel == speed_controller.target_accel
                lower == IF is_inertial(target_accel)
                           THEN -speed_controller.max_decel ELSE -Abs(target_accel)
                upper == IF is_inertial(target_accel)
                           THEN speed_controller.max_accel ELSE Abs(target_accel)
                previous == IF result'.report.status = "FullStop"
                              THEN 0 ELSE accel_controller.target_accel
            IN  result'.report.setpoint_accel =
                    Clamp(previous + result'.report.delta_accel, lower, upper) ]_vars

\* The first returned tick of a controller whose target is the request of the
\* usage example, with current speed 0 on level ground
StartFromRest ==
    /\ call.op = "step"
    /\ Returned
    /\ measurement.time_sec = 50
    /\ last_request = << [ steering_angle |-> 0, speed |-> 5000, accel |-> 1000 ] >>
    /\ call.current_speed = 0
    /\ call.pitch_radians = 0

\* C15: the first tick of a new controller with target {angle 0, speed 5,
\* accel 1}, current speed 0 and level pitch reports Accelerating with
\* throttle > 0, brake = 0, reverse = false and handBrake = false.
C15_StartFromRest ==
    StartFromRest =>
        /\ result.report.status = "Accelerating"
        /\ result.output.throttle > 0
        /\ result.output.brake = 0
        /\ ~result.output.reverse
        /\ ~result.output.hand_brake

\* C15 witness: such a first tick has happened and has opened the throttle
C15_Witness ==
    /\ StartFromRest
    /\ result.report.target_pedal > 0
    /\ result.output.throttle > 0

\* C16: on every returned tick the pedal delta is within the output limit of
\* the acceleration PID, the carried pedal target becomes the clamp to
\* [-max_pedal, max_pedal] of base + delta, where base is the pedal target
\* carried from the tick before, or 0 exactly when the tick is FullStop, and is
\* the pedal target the tick reports; so on a tick that is not FullStop the
\* pedal target moves by at most the output limit.
C16_PedalBoundedRateLimited ==
    [][ (call'.op = "step" /\ result'.kind = "ok") =>
            LET max_pedal == accel_controller.max_pedal
                output_limit == accel_controller.accel_pid.output_limit
                pedal_delta == result'.report.pedal_delta
                base == IF result'.report.status = "FullStop"
                          THEN 0 ELSE accel_controller.target_pedal
            IN  /\ Abs(pedal_delta) <= output_limit
                /\ accel_controller'.target_pedal =
                       Clamp(base + pedal_delta, -max_pedal, max_pedal)
                /\ -max_pedal <= accel_controller'.target_pedal
                /\ accel_controller'.target_pedal <= max_pedal
                /\ result'.report.target_pedal = accel_controller'.target_pedal
                /\ result'.report.status /= "FullStop"
                       => Abs(accel_controller'.target_pedal - accel_controller.target_pedal)
                              <= output_limit ]_vars

\* C16 witness: after four ticks of rising speed, each with a saturated
\* negative pedal delta, the carried pedal target is held at -max_pedal
C16_Witness ==
    /\ Returned
    /\ measurement.time_sec = 200
    /\ measurement.accel > 0
    /\ call.current_speed = 16000
    /\ result.report.pedal_delta = -accel_controller.accel_pid.output_limit
    /\ accel_controller.target_pedal = -accel_controller.max_pedal

\* C17: a returned tick reports FullStop exactly when the magnitude of the
\* current speed is below the stand-still threshold and the magnitude of the
\* stored target speed is below the full-stop threshold; on a FullStop tick the
\* pedal target is the pedal delta alone, and with a target speed at or above
\* the full-stop threshold the tick is not FullStop.
C17_FullStopIffStandingAndStopping ==
    Returned =>
        /\ result.report.status = "FullStop"
               <=> /\ Abs(call.current_speed) < STAND_STILL_SPEED_MS
                   /\ Abs(speed_controller.target_speed) < FULL_STOP_SPEED_MS
        /\ result.report.status = "FullStop"
               => /\ result.report.target_pedal = result.report.pedal_delta
                  /\ accel_controller.target_pedal = result.report.pedal_delta
        /\ Abs(speed_controller.target_speed) >= FULL_STOP_SPEED_MS
               => result.report.status /= "FullStop"

\* C17 witness: after an earlier tick, a tick with current speed 0 under a
\* target speed of 5 m/s or more is not FullStop
C17_Witness ==
    /\ Returned
    /\ measurement.time_sec >= 100
    /\ call.current_speed = 0
    /\ Abs(speed_controller.target_speed) >= 5000
    /\ result.report.status /= "FullStop"
    /\ ~result.output.hand_brake

====
